---- MODULE Spec2Model ----
(***************************************************************************)
(* Model of the idempotent settlement state machine of                     *)
(* backend/src/blockchain/settlement.service.ts (SettlementService) and of *)
(* its gateway backend/src/blockchain/soroban.service.ts (SorobanService). *)
(*                                                                         *)
(* Every await of settleBet and reconcile is one action, so concurrent     *)
(* calls interleave exactly at the await points of the code.  A process    *)
(* crash loses every in-flight call and sweep and keeps the store and the  *)
(* gateway.                                                                *)
(***************************************************************************)
EXTENDS Integers, Sequences, FiniteSets, TLC

\* ---------------------------------------------------------------- bounds
NumCalls == 2
MaxCrashes == 1

Calls == 1..NumCalls
Sweepers == {1}
Bets == {"b1", "b2"}
Outcomes == {"WIN", "LOSE"}
Amounts == {100}
Times == {1, 2}
Finalities == {"success", "failure"}

NumWorkers == 2
MaxEvents == 3

Workers == 1..NumWorkers
Users == {"u1", "u2"}
BetIds == {"b1"}
Winnings == {50}
StakeAmounts == {20}
RewardAmounts == {10}

\* ------------------------------------------------------- SettlementStatus
PENDING == "PENDING"
CONFIRMED == "CONFIRMED"
FAILED == "FAILED"

\* The txHash column is nullable: NoHash stands for null.
NoHash == 0

\* An entity that has not been saved yet has no primary key.
NoId == 0

\* null, as findOne returns it when no row matches
Null ==
  [id |-> NoId, referenceId |-> "", betId |-> "", outcome |-> "",
   amount |-> 0, status |-> "NULL", txHash |-> NoHash]

\* Errors a call can raise
GatewayError == "GatewayError"
QueryFailedError == "QueryFailedError"
NoError == "none"

VARIABLES
  store,       \* the settlements table: store[id] is the row with primary key id
  call,        \* call[c]: one settleBet invocation, its position and its locals
  obs,         \* obs[c]: what call c has done so far (saves, gateway calls, ...)
  sweep,       \* sweep[s]: one reconcile invocation
  gwCalls,     \* gwCalls[b]: invokeContract('settle', [b, ...]) calls made
  gwAccepted,  \* gwAccepted[b]: those that returned a transaction hash
  crashes,     \* process crashes so far
  ledger       \* ledger[b]: what the gateway knows of the transaction of bet b

\* the leaderboard (stat aggregation engine)
VARIABLES
  rows,        \* the leaderboards table: rows[u] is the row of user u
  lock,        \* lock[u]: the worker holding the pessimistic_write lock on rows[u]
  worker,      \* worker[w]: one event handler invocation of LeaderboardService
  applied,     \* applied[u]: the events committed for user u, in commit order
  delivered    \* events handed to handlers so far

settleVars == <<store, call, obs, sweep, gwCalls, gwAccepted, crashes, ledger>>

lbVars == <<rows, lock, worker, applied, delivered>>

vars == <<settleVars, lbVars>>

\* ------------------------------------------------------------ settleBet
\* const referenceId = `settle_${betId}`
ReferenceId(b) == "settle_" \o b

\* settlementRepository.findOne({ where: { referenceId } })
FindOne(st, ref) ==
  IF \E i \in DOMAIN st : st[i].referenceId = ref
    THEN st[CHOOSE i \in DOMAIN st : st[i].referenceId = ref
                 /\ \A j \in DOMAIN st : st[j].referenceId = ref => i <= j]
    ELSE Null

IdempotentReturnConfirmedOnly(existing) ==
  existing # Null /\ existing.status = CONFIRMED

IdempotentReturnPendingOnly(existing) ==
  existing # Null /\ existing.status = PENDING

\* if (existing) { CONFIRMED -> return existing; PENDING -> return existing }
IdempotentReturn(existing) ==
  existing # Null /\ existing.status \in {CONFIRMED, PENDING}

\* settlementRepository.create({referenceId, betId, outcome, amount, status: PENDING})
Create(b, o, a) ==
  [id |-> NoId, referenceId |-> ReferenceId(b), betId |-> b, outcome |-> o,
   amount |-> a, status |-> PENDING, txHash |-> NoHash]

PcSubmitBeforeSave == "invoke"

\* step 2 precedes step 3: the created entity is saved before the gateway is called
PcAfterCreate == "save1"

\* --------------------------------------------------------------- the store
UniqueViolationNever(st, e) == FALSE

\* settlements-by-reference has the unique key referenceId: an insert of a
\* second row with the same referenceId is rejected
UniqueViolation(st, e) ==
  e.id = NoId /\ \E i \in DOMAIN st : st[i].referenceId = e.referenceId

\* save() of an entity without id inserts it and gives it its id; save() of an
\* entity with an id writes the entity's columns over the row
Saved(st, e) == IF e.id = NoId THEN [e EXCEPT !.id = Len(st) + 1] ELSE e

SaveStore(st, e) ==
  IF e.id = NoId THEN Append(st, Saved(st, e)) ELSE [st EXCEPT ![e.id] = e]

\* ------------------------------------------------------------ the gateway
\* return 'mock_tx_hash_' + Date.now()
TxHash(t) == t

OnSubmittedConfirms(e, h) == [e EXCEPT !.txHash = h, !.status = CONFIRMED]

\* settlement.txHash = txHash
OnSubmitted(e, h) == [e EXCEPT !.txHash = h]

OnSubmitFailedKeepsStatus(e) == e

\* catch: settlement.status = SettlementStatus.FAILED
OnSubmitFailed(e) == [e EXCEPT !.status = FAILED]

\* ------------------------------------------------------------ leaderboard
\* lastBetAt and lastStakeAt are nullable: NoTime stands for null.
NoTime == 0

\* no worker holds the lock
NoWorker == 0

\* a leaderboards row as it is created: every counter at its default 0
ZeroRow ==
  [created |-> FALSE,
   totalBets |-> 0, betsWon |-> 0, betsLost |-> 0, totalWinnings |-> 0,
   bettingAccuracy |-> 0, winningStreak |-> 0, highestWinningStreak |-> 0,
   totalStaked |-> 0, totalStakingRewards |-> 0, activeStakes |-> 0,
   lastBetAt |-> NoTime, lastStakeAt |-> NoTime]

\* the event classes
BetPlacedEvents ==
  [type : {"BetPlaced"}, userId : Users, betId : {""}, isWin : {FALSE},
   amount : {0}, reason : {""}, timestamp : Times]

BetSettledEvents ==
  [type : {"BetSettled"}, userId : Users, betId : BetIds, isWin : BOOLEAN,
   amount : Winnings, reason : {""}, timestamp : {1}]

StakeCreditedEvents ==
  [type : {"StakeCredited"}, userId : Users, betId : {""}, isWin : {FALSE},
   amount : RewardAmounts, reason : {""}, timestamp : {1}]

StakeDebitedEvents ==
  [type : {"StakeDebited"}, userId : Users, betId : {""}, isWin : {FALSE},
   amount : StakeAmounts, reason : {"stake", "unstake"}, timestamp : {1}]

Events ==
  BetPlacedEvents \cup BetSettledEvents \cup StakeCreditedEvents
    \cup StakeDebitedEvents

NoEvent ==
  [type |-> "none", userId |-> "", betId |-> "", isWin |-> FALSE,
   amount |-> 0, reason |-> "", timestamp |-> NoTime]

AccuracyTruncated(won, total) ==
  IF total = 0 THEN 0 ELSE (10000 * won) \div total

\* recalculateAccuracy: (betsWon / totalBets) * 100, kept with two decimals
\* (DECIMAL(5,2)); the value is in hundredths of a percent
Accuracy(won, total) ==
  IF total = 0 THEN 0 ELSE (2 * 10000 * won + total) \div (2 * total)

UpdateWinningStreakNoReset(row, isWin) ==
  IF isWin
    THEN [row EXCEPT !.winningStreak = @ + 1,
                     !.highestWinningStreak =
                       IF row.winningStreak + 1 > @ THEN row.winningStreak + 1 ELSE @]
    ELSE row

\* updateWinningStreak: a win increments the streak and raises the highest
\* streak to it; a loss resets the streak to 0
UpdateWinningStreak(row, isWin) ==
  IF isWin
    THEN [row EXCEPT !.winningStreak = @ + 1,
                     !.highestWinningStreak =
                       IF row.winningStreak + 1 > @ THEN row.winningStreak + 1 ELSE @]
    ELSE [row EXCEPT !.winningStreak = 0]

HandleBetPlacedCounts(row, ev) ==
  [row EXCEPT !.lastBetAt = ev.timestamp, !.totalBets = @ + 1]

\* handleBetPlaced: updates the lastBetAt timestamp
HandleBetPlaced(row, ev) == [row EXCEPT !.lastBetAt = ev.timestamp]

\* handleBetSettled: win/loss counters, winnings, streak, then the accuracy
\* from the updated counters
HandleBetSettled(row, ev) ==
  LET counted ==
        [row EXCEPT !.totalBets = @ + 1,
                    !.betsWon = IF ev.isWin THEN @ + 1 ELSE @,
                    !.betsLost = IF ev.isWin THEN @ ELSE @ + 1,
                    !.totalWinnings = IF ev.isWin THEN @ + ev.amount ELSE @]
      streaked == UpdateWinningStreak(counted, ev.isWin)
  IN [streaked EXCEPT
        !.bettingAccuracy = Accuracy(streaked.betsWon, streaked.totalBets)]

\* handleStakeCredited: reward tracking
HandleStakeCredited(row, ev) ==
  [row EXCEPT !.totalStakingRewards = @ + ev.amount,
              !.lastStakeAt = ev.timestamp]

\* handleStakeDebited: a stake adds to totalStaked and activeStakes, an
\* unstake takes from activeStakes, not below 0
HandleStakeDebited(row, ev) ==
  IF ev.reason = "stake"
    THEN [row EXCEPT !.totalStaked = @ + ev.amount,
                     !.activeStakes = @ + ev.amount,
                     !.lastStakeAt = ev.timestamp]
    ELSE [row EXCEPT !.activeStakes = IF @ > ev.amount THEN @ - ev.amount ELSE 0,
                     !.lastStakeAt = ev.timestamp]

\* the handler the event bus calls for an event
Handle(row, ev) ==
  CASE ev.type = "BetPlaced" -> HandleBetPlaced(row, ev)
    [] ev.type = "BetSettled" -> HandleBetSettled(row, ev)
    [] ev.type = "StakeCredited" -> HandleStakeCredited(row, ev)
    [] ev.type = "StakeDebited" -> HandleStakeDebited(row, ev)

\* ensureLeaderboardExists: the row, created if missing
EnsureLeaderboardExists(row) == [row EXCEPT !.created = TRUE]

LockFreeAlways(u) == TRUE

LockFreeTable(u) == \A v \in Users : lock[v] = NoWorker

\* the pessimistic_write lock is on the leaderboard row of the user
LockFree(u) == lock[u] = NoWorker

IdleWorker == [pc |-> "idle", event |-> NoEvent, row |-> ZeroRow]

\* ------------------------------------------------------------------ Init
IdleCall ==
  [pc |-> "idle", betId |-> "", outcome |-> "", amount |-> 0,
   existing |-> Null, settlement |-> Null, error |-> NoError, result |-> Null]

NoObs ==
  [fresh |-> FALSE, saves |-> 0, gw |-> 0, gwHash |-> NoHash,
   gwFailed |-> FALSE, written |-> Null]

IdleSweep == [pc |-> "idle", pending |-> {}]

Init ==
  /\ store = <<>>
  /\ call = [c \in Calls |-> IdleCall]
  /\ obs = [c \in Calls |-> NoObs]
  /\ sweep = [s \in Sweepers |-> IdleSweep]
  /\ gwCalls = [b \in Bets |-> 0]
  /\ gwAccepted = [b \in Bets |-> 0]
  /\ crashes = 0
  /\ ledger = [b \in Bets |-> "none"]
  /\ rows = [u \in Users |-> ZeroRow]
  /\ lock = [u \in Users |-> NoWorker]
  /\ worker = [w \in Workers |-> IdleWorker]
  /\ applied = [u \in Users |-> <<>>]
  /\ delivered = 0

\* --------------------------------------------------------------- actions
\* settleBet(betId, outcome, amount) is called: up to the first await
SettleBet(c, b, o, a) ==
  /\ call[c].pc = "idle"
  /\ IF c = 1 THEN TRUE ELSE call[c - 1].pc # "idle"
  /\ call' = [call EXCEPT ![c] =
       [@ EXCEPT !.pc = "findOne", !.betId = b, !.outcome = o, !.amount = a]]
  /\ obs' = [obs EXCEPT ![c].fresh = (FindOne(store, ReferenceId(b)) = Null)]
  /\ UNCHANGED <<store, sweep, gwCalls, gwAccepted, crashes, ledger>>
  /\ UNCHANGED lbVars

\* 1. Idempotency check: the lookup resolves
Lookup(c) ==
  /\ call[c].pc = "findOne"
  /\ LET existing == FindOne(store, ReferenceId(call[c].betId)) IN
       call' = [call EXCEPT ![c] =
         IF IdempotentReturn(existing)
           THEN [@ EXCEPT !.pc = "returned", !.existing = existing,
                          !.result = existing]
           ELSE [@ EXCEPT !.pc = PcAfterCreate, !.existing = existing,
                          !.settlement =
                            Create(call[c].betId, call[c].outcome, call[c].amount)]]
  /\ UNCHANGED <<store, obs, sweep, gwCalls, gwAccepted, crashes, ledger>>
  /\ UNCHANGED lbVars

\* 2. await this.settlementRepository.save(settlement), outside the try
SaveCreated(c) ==
  /\ call[c].pc = "save1"
  /\ IF UniqueViolation(store, call[c].settlement)
       THEN /\ call' = [call EXCEPT ![c] =
                 [@ EXCEPT !.pc = "threw", !.error = QueryFailedError]]
            /\ UNCHANGED <<store, obs>>
       ELSE /\ store' = SaveStore(store, call[c].settlement)
            /\ call' = [call EXCEPT ![c] =
                 [@ EXCEPT !.pc = "invoke",
                           !.settlement = Saved(store, call[c].settlement)]]
            /\ obs' = [obs EXCEPT ![c] =
                 [@ EXCEPT !.saves = @ + 1,
                           !.written = Saved(store, call[c].settlement)]]
  /\ UNCHANGED <<sweep, gwCalls, gwAccepted, crashes, ledger>>
  /\ UNCHANGED lbVars

\* 3. invokeContract('settle', args) returns a transaction hash; now is Date.now()
InvokeReturns(c, now) ==
  /\ call[c].pc = "invoke"
  /\ call' = [call EXCEPT ![c] =
       [@ EXCEPT !.pc = "save2",
                 !.settlement = OnSubmitted(call[c].settlement, TxHash(now))]]
  /\ obs' = [obs EXCEPT ![c] = [@ EXCEPT !.gw = @ + 1, !.gwHash = TxHash(now)]]
  /\ gwCalls' = [gwCalls EXCEPT ![call[c].betId] = @ + 1]
  /\ gwAccepted' = [gwAccepted EXCEPT ![call[c].betId] = @ + 1]
  /\ ledger' = [ledger EXCEPT ![call[c].betId] = "pending"]
  /\ UNCHANGED <<store, sweep, crashes>>
  /\ UNCHANGED lbVars

\* 3. invokeContract('settle', args) throws (server.getAccount fails)
InvokeThrows(c) ==
  /\ call[c].pc = "invoke"
  /\ call' = [call EXCEPT ![c] =
       [@ EXCEPT !.pc = "saveFailed", !.error = GatewayError,
                 !.settlement = OnSubmitFailed(call[c].settlement)]]
  /\ obs' = [obs EXCEPT ![c] = [@ EXCEPT !.gw = @ + 1, !.gwFailed = TRUE]]
  /\ gwCalls' = [gwCalls EXCEPT ![call[c].betId] = @ + 1]
  /\ UNCHANGED <<store, sweep, gwAccepted, crashes, ledger>>
  /\ UNCHANGED lbVars

\* 4. await this.settlementRepository.save(settlement), inside the try
SaveHash(c) ==
  /\ call[c].pc = "save2"
  /\ IF UniqueViolation(store, call[c].settlement)
       THEN /\ call' = [call EXCEPT ![c] =
                 [@ EXCEPT !.pc = "saveFailed", !.error = QueryFailedError,
                           !.settlement = OnSubmitFailed(call[c].settlement)]]
            /\ UNCHANGED <<store, obs>>
       ELSE /\ store' = SaveStore(store, call[c].settlement)
            /\ call' = [call EXCEPT ![c] =
                 [@ EXCEPT !.pc = "returned",
                           !.settlement = Saved(store, call[c].settlement),
                           !.result = Saved(store, call[c].settlement)]]
            /\ obs' = [obs EXCEPT ![c] =
                 [@ EXCEPT !.saves = @ + 1,
                           !.written = Saved(store, call[c].settlement)]]
  /\ UNCHANGED <<sweep, gwCalls, gwAccepted, crashes, ledger>>
  /\ UNCHANGED lbVars

\* catch: await this.settlementRepository.save(settlement); throw error
SaveFailed(c) ==
  /\ call[c].pc = "saveFailed"
  /\ IF UniqueViolation(store, call[c].settlement)
       THEN /\ call' = [call EXCEPT ![c] =
                 [@ EXCEPT !.pc = "threw", !.error = QueryFailedError]]
            /\ UNCHANGED <<store, obs>>
       ELSE /\ store' = SaveStore(store, call[c].settlement)
            /\ call' = [call EXCEPT ![c] =
                 [@ EXCEPT !.pc = "threw",
                           !.settlement = Saved(store, call[c].settlement)]]
            /\ obs' = [obs EXCEPT ![c] =
                 [@ EXCEPT !.saves = @ + 1,
                           !.written = Saved(store, call[c].settlement)]]
  /\ UNCHANGED <<sweep, gwCalls, gwAccepted, crashes, ledger>>
  /\ UNCHANGED lbVars

\* ------------------------------------------------------------- reconcile
\* find({ where: { status: PENDING } }): the rows as they are now
FindPending(st) == {st[i] : i \in {j \in DOMAIN st : st[j].status = PENDING}}

ReconciledLeavesPending(e) == e

ReconciledAlwaysConfirms(e) == [e EXCEPT !.status = CONFIRMED]

\* the loop body's decision for one selected settlement
Reconciled(e) ==
  IF e.txHash = NoHash
    THEN [e EXCEPT !.status = FAILED]
    ELSE [e EXCEPT !.status = CONFIRMED]

\* reconcile() is called and its find resolves
Reconcile(s) ==
  /\ sweep[s].pc = "idle"
  /\ FindPending(store) # {}
  /\ sweep' = [sweep EXCEPT ![s] = [pc |-> "loop", pending |-> FindPending(store)]]
  /\ UNCHANGED <<store, call, obs, gwCalls, gwAccepted, crashes, ledger>>
  /\ UNCHANGED lbVars

\* one iteration of the for loop, up to its await of save
ReconcileOne(s) ==
  /\ sweep[s].pc = "loop"
  /\ \E e \in sweep[s].pending :
       /\ store' = SaveStore(store, Reconciled(e))
       /\ sweep' = [sweep EXCEPT ![s] =
            IF sweep[s].pending = {e}
              THEN IdleSweep
              ELSE [@ EXCEPT !.pending = @ \ {e}]]
  /\ UNCHANGED <<call, obs, gwCalls, gwAccepted, crashes, ledger>>
  /\ UNCHANGED lbVars

\* ----------------------------------------------------------- environment
InFlight(c) == call[c].pc \notin {"idle", "returned", "threw", "crashed"}

\* the process dies: what is in memory is lost, the store and the gateway stay
Crash ==
  /\ crashes < MaxCrashes
  /\ \/ \E c \in Calls : InFlight(c)
     \/ \E s \in Sweepers : sweep[s].pc # "idle"
  /\ crashes' = crashes + 1
  /\ call' = [c \in Calls |->
       IF InFlight(c) THEN [call[c] EXCEPT !.pc = "crashed"] ELSE call[c]]
  /\ sweep' = [s \in Sweepers |-> IdleSweep]
  /\ UNCHANGED <<store, obs, gwCalls, gwAccepted, ledger>>
  /\ UNCHANGED lbVars

\* the transaction submitted for bet b reaches finality on the ledger
Finalize(b, r) ==
  /\ ledger[b] = "pending"
  /\ ledger' = [ledger EXCEPT ![b] = r]
  /\ UNCHANGED <<store, call, obs, sweep, gwCalls, gwAccepted, crashes>>
  /\ UNCHANGED lbVars

Next ==
  \/ \E c \in Calls, b \in Bets, o \in Outcomes, a \in Amounts : SettleBet(c, b, o, a)
  \/ \E c \in Calls : Lookup(c)
  \/ \E c \in Calls : SaveCreated(c)
  \/ \E c \in Calls, now \in Times : InvokeReturns(c, now)
  \/ \E c \in Calls : InvokeThrows(c)
  \/ \E c \in Calls : SaveHash(c)
  \/ \E c \in Calls : SaveFailed(c)
  \/ \E s \in Sweepers : Reconcile(s)
  \/ \E s \in Sweepers : ReconcileOne(s)
  \/ Crash

Spec == Init /\ [][Next]_vars

\* the service together with the ledger behind the gateway
GatewayNext ==
  \/ Next
  \/ \E b \in Bets, r \in Finalities : Finalize(b, r)

GatewaySpec == Init /\ [][GatewayNext]_vars

\* reconcile runs periodically and each started sweep runs on; the ledger
\* finalizes every submitted transaction
LiveSpec ==
  /\ GatewaySpec
  /\ \A s \in Sweepers : WF_vars(Reconcile(s)) /\ WF_vars(ReconcileOne(s))
  /\ \A b \in Bets : WF_vars(\E r \in Finalities : Finalize(b, r))

\* ------------------------------------------------------- store failures
\* 2. the save of the created entity is rejected by the store: the error leaves
\* settleBet, the try has not been entered
SaveCreatedThrows(c) ==
  /\ call[c].pc = "save1"
  /\ call' = [call EXCEPT ![c] =
       [@ EXCEPT !.pc = "threw", !.error = QueryFailedError]]
  /\ UNCHANGED <<store, obs, sweep, gwCalls, gwAccepted, crashes, ledger>>
  /\ UNCHANGED lbVars

\* 4. the save that attaches the hash is rejected by the store: the catch runs
SaveHashThrows(c) ==
  /\ call[c].pc = "save2"
  /\ call' = [call EXCEPT ![c] =
       [@ EXCEPT !.pc = "saveFailed", !.error = QueryFailedError,
                 !.settlement = OnSubmitFailed(call[c].settlement)]]
  /\ UNCHANGED <<store, obs, sweep, gwCalls, gwAccepted, crashes, ledger>>
  /\ UNCHANGED lbVars

\* the save in the catch is rejected by the store: its error leaves settleBet
SaveFailedThrows(c) ==
  /\ call[c].pc = "saveFailed"
  /\ call' = [call EXCEPT ![c] =
       [@ EXCEPT !.pc = "threw", !.error = QueryFailedError]]
  /\ UNCHANGED <<store, obs, sweep, gwCalls, gwAccepted, crashes, ledger>>
  /\ UNCHANGED lbVars

\* a save of the for loop is rejected by the store.  Without txHash the save is
\* outside the try: the error leaves reconcile and the loop ends.  With a txHash
\* the catch logs the error and the loop goes on.
ReconcileSaveThrows(s) ==
  /\ sweep[s].pc = "loop"
  /\ \E e \in sweep[s].pending :
       sweep' = [sweep EXCEPT ![s] =
         IF e.txHash = NoHash \/ sweep[s].pending = {e}
           THEN IdleSweep
           ELSE [@ EXCEPT !.pending = @ \ {e}]]
  /\ UNCHANGED <<store, call, obs, gwCalls, gwAccepted, crashes, ledger>>
  /\ UNCHANGED lbVars

\* the service on a store whose writes can fail
FaultNext ==
  \/ Next
  \/ \E c \in Calls : SaveCreatedThrows(c)
  \/ \E c \in Calls : SaveHashThrows(c)
  \/ \E c \in Calls : SaveFailedThrows(c)
  \/ \E s \in Sweepers : ReconcileSaveThrows(s)

FaultSpec == Init /\ [][FaultNext]_vars

\* ---------------------------------------------------- leaderboard actions
\* the event bus hands an event to its handler (events arrive at least once:
\* the same event can be handed over again)
Deliver(w, ev) ==
  /\ worker[w].pc = "idle"
  /\ delivered < MaxEvents
  /\ delivered' = delivered + 1
  /\ worker' = [worker EXCEPT ![w] = [pc |-> "lock", event |-> ev, row |-> ZeroRow]]
  /\ UNCHANGED <<rows, lock, applied>>
  /\ UNCHANGED settleVars

\* the transaction starts: the row is locked (pessimistic_write) and read
Acquire(w) ==
  /\ worker[w].pc = "lock"
  /\ LockFree(worker[w].event.userId)
  /\ lock' = [lock EXCEPT ![worker[w].event.userId] = w]
  /\ worker' = [worker EXCEPT ![w] =
       [@ EXCEPT !.pc = "update",
                 !.row = EnsureLeaderboardExists(rows[worker[w].event.userId])]]
  /\ UNCHANGED <<rows, applied, delivered>>
  /\ UNCHANGED settleVars

\* the handler's update is saved and the transaction commits: the lock is released
Commit(w) ==
  /\ worker[w].pc = "update"
  /\ rows' = [rows EXCEPT ![worker[w].event.userId] =
       Handle(worker[w].row, worker[w].event)]
  /\ applied' = [applied EXCEPT ![worker[w].event.userId] =
       Append(@, worker[w].event)]
  /\ lock' = [lock EXCEPT ![worker[w].event.userId] =
       IF @ = w THEN NoWorker ELSE @]
  /\ worker' = [worker EXCEPT ![w] = IdleWorker]
  /\ UNCHANGED delivered
  /\ UNCHANGED settleVars

\* an error in the transaction: automatic rollback, the row stays as it was
Rollback(w) ==
  /\ worker[w].pc = "update"
  /\ lock' = [lock EXCEPT ![worker[w].event.userId] =
       IF @ = w THEN NoWorker ELSE @]
  /\ worker' = [worker EXCEPT ![w] = IdleWorker]
  /\ UNCHANGED <<rows, applied, delivered>>
  /\ UNCHANGED settleVars

LbNext ==
  \/ \E w \in Workers, ev \in Events : Deliver(w, ev)
  \/ \E w \in Workers : Acquire(w)
  \/ \E w \in Workers : Commit(w)
  \/ \E w \in Workers : Rollback(w)

LbSpec == Init /\ [][LbNext]_vars

\* ------------------------------------------------------------------ claims
Finished(c) == call[c].pc \in {"returned", "threw"}

RecordsOf(ref) == {i \in DOMAIN store : store[i].referenceId = ref}

\* the calls made so far for the bet of call c
CallsFor(c) == {d \in Calls : call[d].pc # "idle" /\ call[d].betId = call[c].betId}

\* C1: two concurrent settleBet calls for one betId (the only calls for that
\* bet), both started while no record for settle_<betId> existed and both run
\* to their end, make exactly one invokeContract('settle') call between them,
\* however they interleave.
C1_ExactlyOneSubmission ==
  \A c1, c2 \in Calls :
    ( /\ c1 # c2
      /\ Finished(c1) /\ Finished(c2)
      /\ CallsFor(c1) = {c1, c2}
      /\ obs[c1].fresh /\ obs[c2].fresh )
    => gwCalls[call[c1].betId] = 1

\* both lookups found nothing: the two calls raced past the idempotency check
C1_Witness ==
  \E c1, c2 \in Calls :
    /\ c1 # c2
    /\ Finished(c1) /\ Finished(c2)
    /\ CallsFor(c1) = {c1, c2}
    /\ obs[c1].fresh /\ obs[c2].fresh
    /\ call[c1].existing = Null /\ call[c2].existing = Null
    /\ gwCalls[call[c1].betId] = 1

\* C2: whatever settleBet calls, reconcile sweeps and crashes happen, the
\* gateway accepts (returns a transaction hash for) at most one submission
\* per bet.
C2_AtMostOneAccepted == \A b \in Bets : gwAccepted[b] <= 1

\* a crash lost the accepted hash, the sweep failed the record, and a later
\* settleBet for the same bet ran to its end
C2_Witness ==
  \E c \in Calls :
    /\ crashes = 1
    /\ call[c].pc = "threw"
    /\ call[c].existing.status = FAILED
    /\ call[c].existing.txHash = NoHash
    /\ gwAccepted[call[c].betId] = 1

\* C3: once a stored record is CONFIRMED or FAILED, no step changes any of
\* its fields.
C3_TerminalImmutable ==
  [][\A i \in DOMAIN store :
       store[i].status \in {CONFIRMED, FAILED} => store'[i] = store[i]]_vars

\* C4: in every reachable state at most one PENDING record exists per
\* referenceId.
C4_OnePendingPerReference ==
  \A b \in Bets :
    Cardinality({i \in RecordsOf(ReferenceId(b)) : store[i].status = PENDING}) <= 1

\* a second insert for a reference that has a PENDING record was attempted
C4_Witness ==
  \E c \in Calls, i \in DOMAIN store :
    /\ call[c].pc = "threw"
    /\ call[c].existing = Null
    /\ call[c].error = QueryFailedError
    /\ store[i].referenceId = ReferenceId(call[c].betId)
    /\ store[i].status = PENDING

\* C5: a settleBet call that finds a FAILED record returns that record,
\* saves nothing and does not call the gateway.
C5_FailedReturned ==
  \A c \in Calls :
    (Finished(c) /\ call[c].existing.status = FAILED)
    => /\ call[c].pc = "returned"
       /\ call[c].result = call[c].existing
       /\ obs[c].saves = 0
       /\ obs[c].gw = 0

\* C6: a settleBet call that finds a CONFIRMED record returns it unchanged,
\* with no gateway call and no save; with the call that made the submission
\* the gateway is invoked once in total and both return the same record.
C6_ConfirmedIdempotent ==
  \A c \in Calls :
    (Finished(c) /\ call[c].existing.status = CONFIRMED)
    => /\ call[c].pc = "returned"
       /\ call[c].result = call[c].existing
       /\ obs[c].saves = 0
       /\ obs[c].gw = 0
       /\ gwCalls[call[c].betId] = 1
       /\ \A d \in Calls :
            (call[d].pc = "returned" /\ call[d].betId = call[c].betId)
            => call[d].result.id = call[c].result.id

\* the first call submitted and returned, the sweep confirmed, the second
\* call found the CONFIRMED record
C6_Witness ==
  \E c, d \in Calls :
    /\ call[d].pc = "returned" /\ call[d].existing = Null /\ obs[d].gw = 1
    /\ call[c].pc = "returned" /\ call[c].existing.status = CONFIRMED
    /\ call[c].betId = call[d].betId

\* C7: a settleBet call that finds a PENDING record, with or without a
\* txHash, returns it unchanged, with no gateway call and no save.
C7_PendingIdempotent ==
  \A c \in Calls :
    (Finished(c) /\ call[c].existing.status = PENDING)
    => /\ call[c].pc = "returned"
       /\ call[c].result = call[c].existing
       /\ obs[c].saves = 0
       /\ obs[c].gw = 0

\* a call found the PENDING record of a call that is still awaiting the gateway
C7_Witness ==
  \E c, d \in Calls :
    /\ call[c].pc = "returned"
    /\ call[c].existing.status = PENDING
    /\ call[c].existing.txHash = NoHash
    /\ call[d].pc = "invoke"
    /\ call[d].betId = call[c].betId

\* C8: a call is about to invoke the gateway only after its save of a PENDING
\* record for the reference has completed, and once the gateway has been
\* called a record for that reference is in the store, crash or no crash.
C8_PersistBeforeSubmit ==
  /\ \A c \in Calls :
       call[c].pc = "invoke"
       => /\ obs[c].saves = 1
          /\ obs[c].written.status = PENDING
          /\ obs[c].written.referenceId = ReferenceId(call[c].betId)
  /\ \A c \in Calls :
       obs[c].gw > 0
       => /\ obs[c].saves >= 1
          /\ call[c].settlement.id \in RecordsOf(ReferenceId(call[c].betId))
  /\ \A b \in Bets : gwCalls[b] > 0 => RecordsOf(ReferenceId(b)) # {}

\* the process crashed after the gateway returned and before the hash was saved
C8_Witness ==
  \E c \in Calls :
    /\ call[c].pc = "crashed"
    /\ obs[c].gw = 1
    /\ obs[c].saves = 1
    /\ RecordsOf(ReferenceId(call[c].betId)) # {}

\* C9: a call that found no record and whose submission succeeded has called
\* the gateway once and saved twice, and the record it saved last and returns
\* carries the gateway's hash with status PENDING; no settleBet save writes
\* CONFIRMED.
C9_SuccessPath ==
  /\ \A c \in Calls :
       (call[c].pc = "returned" /\ call[c].existing = Null)
       => /\ obs[c].gw = 1
          /\ obs[c].saves = 2
          /\ call[c].result = obs[c].written
          /\ call[c].result.txHash = obs[c].gwHash
          /\ call[c].result.txHash # NoHash
          /\ call[c].result.status = PENDING
  /\ \A c \in Calls : obs[c].written.status # CONFIRMED

C9_Witness ==
  \E c \in Calls :
    /\ call[c].pc = "returned"
    /\ call[c].existing = Null
    /\ obs[c].gwHash # NoHash

\* C10: when the gateway call of settleBet fails, the record is saved with
\* status FAILED and no txHash, and the call raises the gateway's error
\* instead of returning a record.
C10_GatewayFailure ==
  \A c \in Calls :
    (obs[c].gwFailed /\ Finished(c))
    => /\ call[c].pc = "threw"
       /\ call[c].error = GatewayError
       /\ call[c].result = Null
       /\ obs[c].saves = 2
       /\ obs[c].written.status = FAILED
       /\ obs[c].written.txHash = NoHash
       /\ store[obs[c].written.id] = obs[c].written

C10_Witness ==
  \E c \in Calls :
    /\ call[c].pc = "threw"
    /\ obs[c].gwFailed
    /\ call[c].error = GatewayError

\* the step is sweep s finishing its loop iteration for the selected settlement e
SweepProcesses(s, e) ==
  /\ sweep[s].pc = "loop"
  /\ e \in sweep[s].pending
  /\ crashes' = crashes
  /\ sweep'[s] # sweep[s]
  /\ e \notin sweep'[s].pending

\* C11: a record that is PENDING with no txHash in the store when a reconcile
\* sweep processes it is FAILED after that step (and so not CONFIRMED).
C11_NoHashFailed ==
  [][\A s \in Sweepers : \A e \in sweep[s].pending :
       ( /\ SweepProcesses(s, e)
         /\ store[e.id].status = PENDING
         /\ store[e.id].txHash = NoHash )
       => store'[e.id].status = FAILED]_vars

\* a call crashed with its record PENDING and without a hash, and a sweep,
\* not the call, has failed the record
C11_Witness ==
  \E c \in Calls :
    /\ call[c].pc = "crashed"
    /\ ~obs[c].gwFailed
    /\ call[c].settlement.id \in DOMAIN store
    /\ store[call[c].settlement.id].status = FAILED
    /\ store[call[c].settlement.id].txHash = NoHash

\* the step is sweep s processing a selected settlement that has a txHash and
\* whose stored record is PENDING with a txHash
SweepVerifies(s, e) ==
  /\ SweepProcesses(s, e)
  /\ e.txHash # NoHash
  /\ store[e.id].status = PENDING
  /\ store[e.id].txHash # NoHash

\* C12: when a sweep processes a PENDING record that has a txHash, the record
\* becomes CONFIRMED if the ledger has finalized its transaction as a success
\* and FAILED if it has finalized it as a failure.
C12_StatusFollowsLedger ==
  [][\A s \in Sweepers : \A e \in sweep[s].pending :
       SweepVerifies(s, e)
       => /\ ledger[e.betId] = "success" => store'[e.id].status = CONFIRMED
          /\ ledger[e.betId] = "failure" => store'[e.id].status = FAILED]_vars

\* C13: when a sweep processes a PENDING record that has a txHash while its
\* transaction is still pending on the ledger, the record stays PENDING.
C13_AmbiguousStaysPending ==
  [][\A s \in Sweepers : \A e \in sweep[s].pending :
       (SweepVerifies(s, e) /\ ledger[e.betId] = "pending")
       => store'[e.id].status = PENDING]_vars

\* C14: whatever happens to one selected record, a store write failure
\* included, a step of the sweep's loop takes exactly that record off the
\* records still to process, and the sweep stays in its loop while any remain.
C14_SweepGoesOn ==
  [][\A s \in Sweepers :
       (sweep[s].pc = "loop" /\ sweep'[s] # sweep[s] /\ crashes' = crashes)
       => \E e \in sweep[s].pending :
            /\ sweep'[s].pending = sweep[s].pending \ {e}
            /\ sweep'[s].pending # {} => sweep'[s].pc = "loop"]_vars

\* the record with primary key i
IsPending(i) == i \in DOMAIN store /\ store[i].status = PENDING

IsTerminal(i) == i \in DOMAIN store /\ store[i].status \in {CONFIRMED, FAILED}

\* C15: with sweeps that keep running and a ledger that finalizes every
\* transaction, a record that is PENDING at any time is from some time on
\* CONFIRMED or FAILED for good.
C15_EventuallyTerminal ==
  \A i \in Calls : [](IsPending(i) => <>[]IsTerminal(i))

\* a record with a hash was closed by a sweep after its transaction finalized
C15_Witness ==
  \E i \in DOMAIN store :
    /\ store[i].status = CONFIRMED
    /\ ledger[store[i].betId] # "pending"
    /\ \A s \in Sweepers : sweep[s].pc = "idle"

\* ------------------------------------------------------ leaderboard claims
\* the step commits event ev of worker w to the row of user u
Commits(w, u) ==
  /\ worker[w].pc = "update"
  /\ worker[w].event.userId = u
  /\ applied'[u] = Append(applied[u], worker[w].event)

\* C16: in every row totalBets = betsWon + betsLost, and bettingAccuracy is
\* betsWon / (betsWon + betsLost) * 100 rounded to two decimals (the nearest
\* hundredth of a percent), 0 when no bet is settled.
C16_AccuracyInvariant ==
  \A u \in Users :
    LET won == rows[u].betsWon
        total == rows[u].betsWon + rows[u].betsLost
        acc == rows[u].bettingAccuracy
    IN /\ rows[u].totalBets = total
       /\ total = 0 => acc = 0
       /\ total > 0 => /\ 2 * (acc * total - 10000 * won) <= total
                       /\ 2 * (10000 * won - acc * total) <= total

\* two wins and a loss: 66.67
C16_Witness ==
  \E u \in Users :
    /\ rows[u].betsWon = 2
    /\ rows[u].betsLost = 1
    /\ rows[u].bettingAccuracy = 6667

\* C17: a committed BetSettled loss leaves winningStreak at 0,
\* highestWinningStreak never decreases in a step, and after every step
\* winningStreak <= highestWinningStreak.
C17_StreakInvariant ==
  [][\A u \in Users :
       /\ rows'[u].highestWinningStreak >= rows[u].highestWinningStreak
       /\ rows'[u].winningStreak <= rows'[u].highestWinningStreak
       /\ \A w \in Workers :
            ( /\ Commits(w, u)
              /\ worker[w].event.type = "BetSettled"
              /\ ~worker[w].event.isWin )
            => rows'[u].winningStreak = 0]_vars

\* a loss after two wins
C17_Witness ==
  \E u \in Users :
    /\ Len(applied[u]) = 3
    /\ applied[u][3].type = "BetSettled" /\ ~applied[u][3].isWin
    /\ rows[u].winningStreak = 0
    /\ rows[u].highestWinningStreak = 2

\* C18: committing a BetPlaced event changes lastBetAt and no other field of
\* the row.
C18_BetPlacedFrame ==
  [][\A u \in Users : \A w \in Workers :
       (Commits(w, u) /\ worker[w].event.type = "BetPlaced")
       => rows'[u] = [rows[u] EXCEPT !.lastBetAt = worker[w].event.timestamp,
                                     !.created = TRUE]]_vars

\* a BetPlaced was committed to a row that has a settled bet
C18_Witness ==
  \E u \in Users :
    /\ Len(applied[u]) = 2
    /\ applied[u][1].type = "BetSettled"
    /\ applied[u][2].type = "BetPlaced"
    /\ rows[u].lastBetAt # NoTime
    /\ rows[u].totalBets = 1

RECURSIVE Replay(_, _)
\* the row after the events evs are handled one at a time, in their order
Replay(row, evs) ==
  IF evs = <<>>
    THEN row
    ELSE Replay(Handle(EnsureLeaderboardExists(row), Head(evs)), Tail(evs))

\* C19: every row is what handling its committed events one at a time, in
\* commit order, gives (no update is lost), and a handler waiting for a row
\* lock can take it whenever no worker holds the lock of that very row.
C19_Serialized ==
  /\ \A u \in Users : rows[u] = Replay(ZeroRow, applied[u])
  /\ \A w \in Workers :
       (worker[w].pc = "lock" /\ lock[worker[w].event.userId] = NoWorker)
       => ENABLED Acquire(w)

\* a handler holds the lock of a row, a second one for the same user waits,
\* and an earlier event is already committed to the row
C19_Witness ==
  \E w1, w2 \in Workers :
    /\ worker[w1].pc = "update"
    /\ worker[w2].pc = "lock"
    /\ worker[w1].event.userId = worker[w2].event.userId
    /\ applied[worker[w1].event.userId] # <<>>

\* C20: committing an event that is already committed to the row leaves the
\* row as it was.
C20_RedeliverySafe ==
  [][\A u \in Users : \A w \in Workers :
       ( /\ Commits(w, u)
         /\ \E k \in DOMAIN applied[u] : applied[u][k] = worker[w].event )
       => rows'[u] = rows[u]]_vars

\* the betting counters, the accuracy and the streak fields of a row
BettingFields(row) ==
  <<row.totalBets, row.betsWon, row.betsLost, row.totalWinnings,
    row.bettingAccuracy, row.winningStreak, row.highestWinningStreak>>

\* the events evs with the k-th and the one after it delivered the other way round
Swapped(evs, k) ==
  [i \in DOMAIN evs |->
     IF i = k THEN evs[k + 1] ELSE IF i = k + 1 THEN evs[k] ELSE evs[i]]

\* a BetPlaced and a BetSettled committed one right after the other, either first
BetPair(evs, k) ==
  {evs[k].type, evs[k + 1].type} = {"BetPlaced", "BetSettled"}

\* C21: for one user, a BetSettled committed right before a BetPlaced (or
\* right after it) leaves the betting counters, the accuracy and the streak
\* fields of the row as the two events handled in the other order would.
C21_OrderIndependent ==
  \A u \in Users : \A k \in 1..(Len(applied[u]) - 1) :
    BetPair(applied[u], k)
    => BettingFields(rows[u])
         = BettingFields(Replay(ZeroRow, Swapped(applied[u], k)))

\* a won bet was settled in the row before its BetPlaced was committed
C21_Witness ==
  \E u \in Users :
    /\ Len(applied[u]) >= 2
    /\ applied[u][1].type = "BetSettled" /\ applied[u][1].isWin
    /\ applied[u][2].type = "BetPlaced"
    /\ rows[u].betsWon = 1
    /\ rows[u].bettingAccuracy = 10000
    /\ rows[u].winningStreak = 1
    /\ rows[u].lastBetAt = applied[u][2].timestamp

\* ------------------------------------------------- settlement claims, again
\* C22: in every reachable state a stored record with status CONFIRMED has a
\* txHash, whatever settleBet calls, reconcile sweeps and crashes come before.
C22_ConfirmedHasHash ==
  \A i \in DOMAIN store :
    store[i].status = CONFIRMED => store[i].txHash # NoHash

\* one sweep confirmed a record with the hash its call got from the gateway
\* and failed another record that has no hash
C22_Witness ==
  \E i, j \in DOMAIN store : \E c \in Calls :
    /\ store[i].status = CONFIRMED
    /\ call[c].settlement.id = i
    /\ store[i].txHash = obs[c].gwHash
    /\ store[j].status = FAILED
    /\ store[j].txHash = NoHash
    /\ \A s \in Sweepers : sweep[s].pc = "idle"

\* the gateway returned a transaction hash to call c, for the record c inserted
Accepted(c) == obs[c].gwHash # NoHash /\ call[c].settlement.id \in DOMAIN store

\* C23: the record of a submission the gateway accepted (it returned a
\* transaction hash for it) is never FAILED in the store.
C23_AcceptedNeverFailed ==
  \A c \in Calls :
    Accepted(c) => store[call[c].settlement.id].status # FAILED

\* the store rejected the write that attaches the hash, and the catch saved FAILED
C23_HashWriteFailed ==
  \E c \in Calls :
    /\ Accepted(c)
    /\ call[c].pc = "threw"
    /\ call[c].error = QueryFailedError
    /\ store[call[c].settlement.id].status = FAILED

\* the process crashed before the write of the hash, and a sweep failed the record
C23_CrashBeforeWrite ==
  \E c \in Calls :
    /\ Accepted(c)
    /\ call[c].pc = "crashed"
    /\ store[call[c].settlement.id].status = FAILED
    /\ store[call[c].settlement.id].txHash = NoHash

\* a sweep failed the record while the call was awaiting the gateway, which
\* then returned a hash
C23_SweepDuringSubmit ==
  \E c \in Calls :
    /\ Accepted(c)
    /\ crashes = 0
    /\ call[c].pc = "save2"
    /\ store[call[c].settlement.id].status = FAILED

====
